---- MODULE Spec2Model ----
(***************************************************************************)
(* Union-Find decoder over surface codes (toric / rotated planar).         *)
(* Bit-masks are natural numbers, as in the source (Python integers):      *)
(* bit i of a data mask is data qubit i, bit i of a syndrome mask is       *)
(* parity-check qubit i.                                                   *)
(***************************************************************************)
EXTENDS Integers, Sequences, FiniteSets, TLC

(***************************************************************************)
(* Bounds of the model.                                                    *)
(***************************************************************************)
\* largest number of parity checks per type (width * length) of a toric code
MaxChecks == 9
\* largest number of flipped data qubits in a sampled error
MaxErrorWeight == 2
\* largest value of the sweep counter; the counter stays there on later sweeps
MaxCount == 3
\* largest rotated planar dimension
MaxDimension == 4
\* largest number of set bits in a data mask handed to generate_syndrome
MaxMaskWeight == 3
\* largest length of, and largest index in, a list of qubit indexes
MaxListLen == 3
\* largest value of the failure counter; the counter stays there afterwards
MaxFail == 2
\* the value dimension has when the threshold script computes
\* num_data_qubits: 7 in the script, whose distances are 4 and 8; here a
\* value that gives a bit count between those of the smallest and of the
\* largest code of the model
StaleDimension == 4
\* largest vertex index handed to Graph.add_edge
MaxVertex == 3
\* largest number of Graph.add_edge calls on a graph
MaxEdges == 2

(***************************************************************************)
(* Python integer operators on bit-masks.                                  *)
(***************************************************************************)
\* Python evaluates the arguments of a call once: the operators below
\* are functions, applied to the values of their arguments.
Pow2[k \in Nat] == IF k = 0 THEN 1 ELSE 2 * Pow2[k - 1]

\* a << k
Shl(a, k) == a * Pow2[k]

\* a >> k
Shr(a, k) == a \div Pow2[k]

AndBits[a \in Nat, b \in Nat] ==
    IF a = 0 \/ b = 0 THEN 0
    ELSE (IF a % 2 = 1 /\ b % 2 = 1 THEN 1 ELSE 0)
         + 2 * AndBits[a \div 2, b \div 2]

\* a & b
And(a, b) == AndBits[a, b]

OrBits[a \in Nat, b \in Nat] ==
    IF a = 0 THEN b
    ELSE IF b = 0 THEN a
    ELSE (IF a % 2 = 1 \/ b % 2 = 1 THEN 1 ELSE 0)
         + 2 * OrBits[a \div 2, b \div 2]

\* a | b
Or(a, b) == OrBits[a, b]

XorBits[a \in Nat, b \in Nat] ==
    IF a = 0 THEN b
    ELSE IF b = 0 THEN a
    ELSE (IF (a % 2) # (b % 2) THEN 1 ELSE 0)
         + 2 * XorBits[a \div 2, b \div 2]

\* a ^ b
Xor(a, b) == XorBits[a, b]

AndNotBits[a \in Nat, b \in Nat] ==
    IF a = 0 THEN 0
    ELSE IF b = 0 THEN a
    ELSE (IF a % 2 = 1 /\ b % 2 = 0 THEN 1 ELSE 0)
         + 2 * AndNotBits[a \div 2, b \div 2]

\* a & ~b
AndNot(a, b) == AndNotBits[a, b]

OnesOf[a \in Nat] == IF a = 0 THEN 0 ELSE (a % 2) + OnesOf[a \div 2]

\* bin(a).count("1")
CountOnes(a) == OnesOf[a]

\* (a >> i) & 1 as a truth value
Bit(a, i) == Shr(a, i) % 2 = 1

(***************************************************************************)
(* src/classical/helpers.py                                                *)
(***************************************************************************)
RECURSIVE convert_qubit_list_to_binary(_)
convert_qubit_list_to_binary(error_string) ==
    IF error_string = <<>> THEN 0
    ELSE Shl(1, Head(error_string))
         + convert_qubit_list_to_binary(Tail(error_string))

\* the while loop of convert_binary_to_qubit_list: the indexes found from
\* position i on
BinaryToListLoop[error_string \in Nat, i \in Nat] ==
    IF error_string > 0
    THEN (IF error_string % 2 = 1 THEN <<i>> ELSE <<>>)
         \o BinaryToListLoop[error_string \div 2, i + 1]
    ELSE <<>>

convert_binary_to_qubit_list(error_string) ==
    BinaryToListLoop[error_string, 0]

(***************************************************************************)
(* ToricCode.__init__ : the two parity-check tables.                       *)
(***************************************************************************)
RECURSIVE ToricZLoop(_, _, _, _, _)
ToricZLoop(width, length, p, p_check, checks) ==
    LET num == width * length
        row == p \div width
        p_shift == Shl(p_check, row * width)
        p_edge ==
            IF (p + 1) % width = 0
            THEN Xor(p_shift,
                     Shl(Shl(1, 2 * width) + Shl(1, width), row * 2 * width))
            ELSE p_shift
        p_save ==
            IF row = length - 1
            THEN And(p_edge, Shl(1, 2 * num) - 1) + Shl(1, p % width)
            ELSE p_edge
    IN  IF p = num THEN checks
        ELSE ToricZLoop(width, length, p + 1, Shl(p_check, 1),
                        Append(checks, p_save))

RECURSIVE ToricXLoop(_, _, _, _, _, _)
ToricXLoop(width, length, p, p_check, final_index, checks) ==
    LET num == width * length
        row == p \div width
        p_shift == Shr(p_check, row * width)
        rowEnd == (p + 1) % width = 0
        p_edge ==
            IF rowEnd
            THEN Xor(p_shift,
                     Shl(1, final_index - width)
                     + Shr(Shl(1, final_index), 2 * width))
            ELSE p_shift
        p_save ==
            IF row = length - 1
            THEN Or(p_edge, Shl(1, 2 * num - 1 - (p % width)))
            ELSE p_edge
        next_index ==
            IF rowEnd /\ p # num - 1
            THEN final_index - 2 * width ELSE final_index
    IN  IF p = num THEN checks
        ELSE ToricXLoop(width, length, p + 1, Shr(p_check, 1), next_index,
                        <<p_save>> \o checks)

\* a toric code whose Z template lacks the qubit below the vertex
ToricCodeThreeBitTemplate(width, length) ==
    LET num == width * length
        final_index == 2 * num - 1
    IN  [ kind |-> "toric", width |-> width, length |-> length,
          num_parity_check_qubits |-> num,
          num_data_qubits |-> 2 * num,
          z |-> ToricZLoop(width, length, 0, Shl(3, width) + 1, <<>>),
          x |-> ToricXLoop(width, length, 0,
                           Shl(1, final_index)
                           + Shr(Shl(1, final_index), 2 * width)
                           + Shr(Shl(3, final_index - 1), width),
                           final_index, <<>>) ]

ToricCode(width, length) ==
    LET num == width * length
        final_index == 2 * num - 1
    IN  [ kind |-> "toric", width |-> width, length |-> length,
          num_parity_check_qubits |-> num,
          num_data_qubits |-> 2 * num,
          z |-> ToricZLoop(width, length, 0,
                           Shl(1, 2 * width) + Shl(3, width) + 1, <<>>),
          x |-> ToricXLoop(width, length, 0,
                           Shl(1, final_index)
                           + Shr(Shl(1, final_index), 2 * width)
                           + Shr(Shl(3, final_index - 1), width),
                           final_index, <<>>) ]

\* a dimension check that looks at the width only
ToricAcceptsWidthOnly(width, length) == ~(width <= 1)

\* AbstractSurfaceCode.__init__ : the dimensions a toric code accepts
ToricAccepts(width, length) == ~(width <= 1 \/ length <= 1)

ToricDims ==
    { d \in (1..MaxChecks) \X (1..MaxChecks) :
        ToricAccepts(d[1], d[2]) /\ d[1] * d[2] <= MaxChecks }

ToricCodes == [ d \in ToricDims |-> ToricCode(d[1], d[2]) ]

(***************************************************************************)
(* RPlanarCode.__init__ (quantum/error_correction/codes/rotated_planar.py) *)
(* The comparisons with (dimension - 1) / 2 are true divisions: they are   *)
(* written here with both sides doubled.                                   *)
(***************************************************************************)
RECURSIVE RPlanarZLoop(_, _, _, _, _, _, _)
RPlanarZLoop(dimension, num, p, p_temp, p_check_weight_2, p_check_weight_4, stabilizers) ==
    IF p = num THEN stabilizers
    ELSE IF p_temp % dimension = 0
    THEN IF p_temp = 0
         THEN RPlanarZLoop(dimension, num, p + 1, p_temp + 1,
                  Shl(p_check_weight_2, 2 * dimension - 1), p_check_weight_4,
                  Append(stabilizers, p_check_weight_2))
         ELSE IF p_temp = dimension
         THEN RPlanarZLoop(dimension, num, p + 1, 0,
                  Shl(p_check_weight_2, 1), Shl(p_check_weight_4, 2),
                  Append(stabilizers, p_check_weight_2))
         ELSE RPlanarZLoop(dimension, num, p + 1, p_temp,
                  p_check_weight_2, p_check_weight_4,
                  Append(stabilizers, p_check_weight_2))
    ELSE RPlanarZLoop(dimension, num, p + 1, p_temp + 1,
             p_check_weight_2, Shl(p_check_weight_4, 2),
             Append(stabilizers, p_check_weight_4))

RECURSIVE RPlanarXLoop(_, _, _, _, _, _, _)
RPlanarXLoop(dimension, num, p, p_temp, p_check_weight_2, p_check_weight_4, stabilizers) ==
    IF p = num THEN stabilizers
    ELSE IF 2 * p >= dimension - 1 /\ 2 * p < dimension * (dimension - 1)
    THEN RPlanarXLoop(dimension, num, p + 1,
             IF 2 * (p_temp + 1) # dimension - 1 /\ p_temp + 1 = dimension - 1
             THEN 0 ELSE p_temp + 1,
             p_check_weight_2,
             IF 2 * (p_temp + 1) = dimension - 1
             THEN Shl(p_check_weight_4, 4) ELSE Shl(p_check_weight_4, 2),
             Append(stabilizers, p_check_weight_4))
    ELSE RPlanarXLoop(dimension, num, p + 1, p_temp,
             IF 2 * p = dimension - 3
             THEN Shl(p_check_weight_2, (dimension - 1) * (dimension - 1) + 1)
             ELSE Shl(p_check_weight_2, 2),
             p_check_weight_4,
             Append(stabilizers, p_check_weight_2))

\* a rotated planar code whose first weight-2 X check sits on qubits 0, 1
RPlanarCodeShiftedBoundary(dimension) ==
    LET num == (dimension * dimension - 1) \div 2
    IN  [ kind |-> "rplanar", width |-> dimension, length |-> dimension,
          num_parity_check_qubits |-> num,
          num_data_qubits |-> dimension * dimension,
          z |-> RPlanarZLoop(dimension, num, 0, 0,
                             Shl(1, dimension) + 1,
                             Shl(Shl(3, dimension) + 3, 1), <<>>),
          x |-> RPlanarXLoop(dimension, num, 0, 0, 3,
                             Shl(3, dimension) + 3, <<>>) ]

RPlanarCode(dimension) ==
    LET num == (dimension * dimension - 1) \div 2
    IN  [ kind |-> "rplanar", width |-> dimension, length |-> dimension,
          num_parity_check_qubits |-> num,
          num_data_qubits |-> dimension * dimension,
          z |-> RPlanarZLoop(dimension, num, 0, 0,
                             Shl(1, dimension) + 1,
                             Shl(Shl(3, dimension) + 3, 1), <<>>),
          x |-> RPlanarXLoop(dimension, num, 0, 0, 6,
                             Shl(3, dimension) + 3, <<>>) ]

\* line 42: if dimension & 0 or dimension == 1: raise ValueError
RPlanarAccepts(dimension) == ~(And(dimension, 0) # 0 \/ dimension = 1)

RPlanarDims == { d \in 1..MaxDimension : RPlanarAccepts(d) }

RPlanarCodes == [ d \in RPlanarDims |-> RPlanarCode(d) ]

(***************************************************************************)
(* AbstractSurfaceCode: table lookup and syndrome generation.              *)
(***************************************************************************)
OtherType(t) == IF t = "x" THEN "z" ELSE "x"

\* code._parity_checks[parity_check_type]
ParityChecks(c, parity_check_type) ==
    IF parity_check_type = "x" THEN c.x ELSE c.z

\* code.get_stabilizers(index, stabilizer_type): one parity check of a type
get_stabilizers(c, index, stabilizer_type) ==
    ParityChecks(c, stabilizer_type)[index + 1]

\* while par: res = 1 | res ^= par & 1 ; par >>= 1
ParityBits[par \in Nat, res \in {0, 1}, show_all \in BOOLEAN] ==
    IF par = 0 THEN res
    ELSE ParityBits[par \div 2,
                    IF show_all THEN 1 ELSE Xor(res, par % 2),
                    show_all]

\* a parity loop that reports adjacency instead of parity
ParityLoopAdjacent(par, res, show_all_adjacent) ==
    ParityBits[par, res, TRUE]

\* lines 100-107: res for one parity check
ParityLoop(par, res, show_all_adjacent) ==
    ParityBits[par, res, show_all_adjacent]

\* a syndrome loop that ignores show_all_adjacent and always adds modulo 2
SyndromeLoopParityOnly(checks, error_string, show_all_adjacent) ==
    LET partial[i \in 0..Len(checks)] ==
            IF i = 0 THEN 0
            ELSE partial[i - 1]
                 + Shl(ParityLoop(And(checks[i], error_string), 0, FALSE),
                       i - 1)
    IN  partial[Len(checks)]

\* lines 98-109: for i, parity_check in enumerate(...): syndrome += res << i
SyndromeLoop(checks, error_string, show_all_adjacent) ==
    LET partial[i \in 0..Len(checks)] ==
            IF i = 0 THEN 0
            ELSE partial[i - 1]
                 + Shl(ParityLoop(And(checks[i], error_string), 0,
                                  show_all_adjacent), i - 1)
    IN  partial[Len(checks)]

\* a generate_syndrome that never adds the parity checks modulo 2
generate_syndromeAllAdjacent(c, error_string, error_type, show_all_adjacent) ==
    SyndromeLoop(ParityChecks(c, OtherType(error_type)), error_string, TRUE)

generate_syndrome(c, error_string, error_type, show_all_adjacent) ==
    SyndromeLoop(ParityChecks(c, OtherType(error_type)), error_string,
                 show_all_adjacent)

(***************************************************************************)
(* Python dictionaries keep insertion order: a dictionary is a sequence    *)
(* of entries [root, data, syndrome], one per key.                         *)
(***************************************************************************)
HasKey(d, k) == \E j \in 1..Len(d) : d[j].root = k

KeyPos(d, k) == CHOOSE j \in 1..Len(d) : d[j].root = k

DictGet(d, k) == d[KeyPos(d, k)]

\* d[k] = (data, syndrome): replaces in place or appends a new key
DictSet(d, k, data, syndrome) ==
    LET e == [root |-> k, data |-> data, syndrome |-> syndrome]
    IN  IF HasKey(d, k)
        THEN [d EXCEPT ![KeyPos(d, k)] = e]
        ELSE Append(d, e)

\* a del that removes nothing
DictDelNothing(d, k) == d

\* del d[k]
DictDel(d, k) == SelectSeq(d, LAMBDA e : e.root # k)

\* trees[full_step] of an entry: 0 selects the data tree, 1 the syndrome tree
Tree(e, full_step) == IF full_step = 0 THEN e.data ELSE e.syndrome

(***************************************************************************)
(* syndrome_validation_naive: the body of one pass of the for loop.        *)
(***************************************************************************)
\* for stab in convert_binary_to_qubit_list(syndrome_tree): data_tree |= ...
GrowData(c, stabs, syndrome_type, data_tree) ==
    LET grown[k \in 0..Len(stabs)] ==
            IF k = 0 THEN data_tree
            ELSE Or(grown[k - 1],
                    get_stabilizers(c, stabs[k], syndrome_type))
    IN  grown[Len(stabs)]

\* grow by a half step (lines 96-105)
HalfStep(c, odd, index, syndrome_type, first) ==
    LET old == IF HasKey(odd, index) THEN DictGet(odd, index)
               ELSE [root |-> index, data |-> 0, syndrome |-> 0]
        data_tree ==
            IF first = 1
            THEN Or(old.data, get_stabilizers(c, index, syndrome_type))
            ELSE GrowData(c, convert_binary_to_qubit_list(old.syndrome),
                          syndrome_type, old.data)
    IN  DictSet(odd, index, data_tree, old.syndrome)

\* grow by a full step (lines 107-113); the key must exist
FullStep(c, odd, index) ==
    LET old == DictGet(odd, index)
        update_syndrome == generate_syndrome(c, old.data, "x", TRUE)
    IN  DictSet(odd, index, old.data, Or(old.syndrome, update_syndrome))

\* a scan that keeps the last other odd cluster that meets the grown one
MergeScanLast(odd, index, step) ==
    LET mine == Tree(DictGet(odd, index), step)
        meets == { j \in 1..Len(odd) :
                     /\ odd[j].root # index
                     /\ CountOnes(And(mine, Tree(odd[j], step))) >= 1 }
    IN  IF meets = {} THEN -1
        ELSE odd[CHOOSE j \in meets : \A k \in meets : j >= k].root

\* lines 116-124: the first other odd cluster, in dictionary order, that
\* meets the grown one; -1 stands for None
MergeScan(odd, index, full_step) ==
    LET mine == Tree(DictGet(odd, index), full_step)
        meets == { j \in 1..Len(odd) :
                     /\ odd[j].root # index
                     /\ CountOnes(And(mine, Tree(odd[j], full_step))) >= 1 }
    IN  IF meets = {} THEN -1
        ELSE odd[CHOOSE j \in meets : \A k \in meets : j <= k].root

\* a fusion that leaves the seed bits in the working syndrome
FuseKeepingSeeds(odd, even, syndrome, index, root_merge) ==
    LET rootc == DictGet(odd, root_merge)
        other == DictGet(odd, index)
    IN  [ even |-> DictSet(even, root_merge,
                       Or(other.data, rootc.data),
                       Or(Or(Or(other.syndrome, rootc.syndrome),
                             Shl(1, index)), Shl(1, root_merge))),
          odd |-> DictDel(DictDel(odd, index), root_merge),
          syndrome |-> syndrome ]

\* lines 127-142: fuse the grown cluster with root_merge
Fuse(odd, even, syndrome, index, root_merge) ==
    LET rootc == DictGet(odd, root_merge)
        other == DictGet(odd, index)
    IN  [ even |-> DictSet(even, root_merge,
                       Or(other.data, rootc.data),
                       Or(Or(Or(other.syndrome, rootc.syndrome),
                             Shl(1, index)), Shl(1, root_merge))),
          odd |-> DictDel(DictDel(odd, index), root_merge),
          syndrome |-> AndNot(syndrome,
                              Or(Shl(1, index), Shl(1, root_merge))) ]

(***************************************************************************)
(* generate_spanning_trees.  A stack item is the tuple (node,) or          *)
(* (node, parent, edge); visited maps a node to None (<<>>) or to          *)
(* [parent, node, edge], in discovery order.                               *)
(***************************************************************************)
InList(n, list) == \E j \in 1..Len(list) : list[j] = n

Visited(visited, n) == \E j \in 1..Len(visited) : visited[j].node = n

\* lines 213-223: the neighbours pushed for current_node; crashed stands for
\* the IndexError of [0] on an empty qubit list
Neighbours(c, node, data_qubits, syn_list, syndrome_type) ==
    LET stab == get_stabilizers(c, node, syndrome_type)
        adjacent == convert_binary_to_qubit_list(
                        generate_syndrome(c, And(stab, data_qubits), "x", FALSE))
        kept == SelectSeq(adjacent, LAMBDA n : InList(n, syn_list))
        shared(n) == convert_binary_to_qubit_list(
                         And(stab, get_stabilizers(c, n, syndrome_type)))
    IN  [ crashed |-> \E j \in 1..Len(kept) : shared(kept[j]) = <<>>,
          items |-> [ j \in 1..Len(kept) |->
                        << kept[j], node,
                           IF shared(kept[j]) = <<>> THEN -1
                           ELSE shared(kept[j])[1] >> ] ]

RECURSIVE DepthFirst(_, _, _, _, _, _)
\* lines 200-233: the while loop over the stack
DepthFirst(c, stack, visited, data_qubits, syn_list, syndrome_type) ==
    IF stack = <<>> THEN [crashed |-> FALSE, visited |-> visited]
    ELSE
      LET current_node == stack[Len(stack)]
          rest == SubSeq(stack, 1, Len(stack) - 1)
      IN  IF Visited(visited, current_node[1])
          THEN DepthFirst(c, rest, visited, data_qubits, syn_list,
                          syndrome_type)
          ELSE
            LET nb == Neighbours(c, current_node[1], data_qubits, syn_list,
                                 syndrome_type)
                entry == IF Len(current_node) > 1
                         THEN << current_node[2], current_node[1],
                                 current_node[3] >>
                         ELSE <<>>
            IN  IF nb.crashed
                THEN [crashed |-> TRUE, visited |-> visited]
                ELSE DepthFirst(c, rest \o nb.items,
                         Append(visited,
                                [node |-> current_node[1], entry |-> entry]),
                         data_qubits, syn_list, syndrome_type)

\* lines 194-235: the spanning tree of one cluster
SpanningTree(c, cluster, syndrome_type) ==
    LET syn_list == convert_binary_to_qubit_list(cluster.syndrome)
        dfs == DepthFirst(c, << <<syn_list[1]>> >>, <<>>, cluster.data,
                          syn_list, syndrome_type)
    IN  [ crashed |-> dfs.crashed,
          tree |-> [ j \in 1..Len(dfs.visited) |-> dfs.visited[j].entry ] ]

RECURSIVE SpanningTreesLoop(_, _, _, _, _)
\* line 192: for root, (data_qubits, syndrome_qubits) in clusters.items()
SpanningTreesLoop(c, clusters, k, syndrome_type, trees) ==
    IF k > Len(clusters) THEN [crashed |-> FALSE, trees |-> trees]
    ELSE LET t == SpanningTree(c, clusters[k], syndrome_type)
         IN  IF t.crashed THEN [crashed |-> TRUE, trees |-> trees]
             ELSE SpanningTreesLoop(c, clusters, k + 1, syndrome_type,
                      Append(trees, [root |-> clusters[k].root,
                                     tree |-> t.tree]))

generate_spanning_trees(clusters, c, original_syndrome_type) ==
    SpanningTreesLoop(c, clusters, 1, original_syndrome_type, <<>>)

(***************************************************************************)
(* tree_peeler.  The lists of spanning_trees are consumed by pop().        *)
(***************************************************************************)
RECURSIVE PeelTree(_, _, _)
\* lines 253-262: while spanning_tree: edge = spanning_tree.pop() ...
PeelTree(spanning_tree, syndrome, correction) ==
    IF spanning_tree = <<>>
    THEN [tree |-> <<>>, syn |-> syndrome, correction |-> correction]
    ELSE
      LET edge == spanning_tree[Len(spanning_tree)]
          rest == SubSeq(spanning_tree, 1, Len(spanning_tree) - 1)
      IN  IF edge = <<>>
          THEN [tree |-> rest, syn |-> syndrome, correction |-> correction]
          ELSE IF And(Shl(1, edge[2]), syndrome) # 0
          THEN PeelTree(rest,
                        Xor(syndrome, Or(Shl(1, edge[2]), Shl(1, edge[1]))),
                        Append(correction, edge[3]))
          ELSE PeelTree(rest, syndrome, correction)

RECURSIVE PeelLoop(_, _, _, _, _)
\* line 249: for root, spanning_tree in spanning_trees.items()
PeelLoop(trees, k, syndrome, left, corr) ==
    IF k > Len(trees) THEN [trees |-> left, corrections |-> corr]
    ELSE LET r == PeelTree(trees[k].tree, syndrome, <<>>)
         IN  PeelLoop(trees, k + 1, r.syn,
                 Append(left, [root |-> trees[k].root, tree |-> r.tree]),
                 Append(corr, [root |-> trees[k].root,
                               edges |-> r.correction]))

\* a peeler that starts from the empty syndrome and so picks no edge
tree_peelerEmptySyndrome(trees, original_syndrome) ==
    PeelLoop(trees, 1, 0, <<>>, <<>>)

tree_peeler(trees, original_syndrome) ==
    PeelLoop(trees, 1, original_syndrome, <<>>, <<>>)

RECURSIVE SumLists(_, _)
\* sum(corrections.values(), [])
SumLists(corr, k) ==
    IF k > Len(corr) THEN <<>> ELSE corr[k].edges \o SumLists(corr, k + 1)


(***************************************************************************)
(* State.                                                                  *)
(***************************************************************************)
VARIABLES
    code,              \* the constructed code (tables fixed at construction)
    pc,                \* position of the caller / of the running function
    error_string,      \* data error mask of the trial, NoError if none
    error_type,        \* error type handed to generate_syndrome
    show_all_adjacent, \* flag handed to generate_syndrome
    error_syn,         \* the original syndrome handed to the decoder
    syndrome_type,     \* syndrome_type argument of the decoder
    syndrome_string,   \* working syndrome of syndrome_validation_naive
    syn,               \* the copy shifted right while scanning
    full_step,         \* 0: half step, 1: full step
    first_step,        \* 1 until the first full step grew a cluster
    count,             \* completed sweeps
    stabilizer_index,  \* position of the for loop
    odd_clusters,      \* dictionary root -> (data tree, syndrome tree)
    even_clusters,     \* dictionary root -> (data tree, syndrome tree)
    spanning_trees,    \* dictionary root -> list of None / [parent, child, edge]
    corrections,       \* dictionary root -> list of data qubits
    result,            \* syndrome of error_string ^ total_correction
    cycle,             \* counted trials of the threshold driver
    logical_fail,      \* failed trials of the threshold driver
    args,              \* arguments of the last constructor or accessor call
    returned,          \* value returned by the last accessor or helper call
    vertex_map,        \* Graph._vertex_map: vertex -> list of end vertices
    num_vertices       \* Graph._num_vertices

vars == << code, pc, error_string, error_type, show_all_adjacent, error_syn,
           syndrome_type, syndrome_string, syn, full_step, first_step, count,
           stabilizer_index, odd_clusters, even_clusters, spanning_trees,
           corrections, result, cycle, logical_fail, args, returned,
           vertex_map, num_vertices >>

NoError == -1

\* examples/toric_threshold_plotting.py line 26
max_cycles == 5000

decoderVars == << syndrome_string, syn, full_step, first_step, count,
                  stabilizer_index, odd_clusters, even_clusters >>

outputVars == << spanning_trees, corrections, result >>

inputVars == << error_string, error_type, show_all_adjacent, error_syn,
                syndrome_type >>

driverVars == << cycle, logical_fail >>

apiVars == << args, returned >>

graphVars == << vertex_map, num_vertices >>

\* graphs/graph.py lines 8-10: defaultdict(list), every vertex maps to the
\* empty list until an edge leaves it
EmptyVertexMap == [ v \in 0..MaxVertex |-> <<>> ]

\* no call has been made yet
Fresh ==
    /\ error_string = NoError
    /\ error_type = "x"
    /\ show_all_adjacent = FALSE
    /\ error_syn = 0
    /\ syndrome_type = "z"
    /\ syndrome_string = 0
    /\ syn = 0
    /\ full_step = 0
    /\ first_step = 1
    /\ count = 0
    /\ stabilizer_index = 0
    /\ odd_clusters = <<>>
    /\ even_clusters = <<>>
    /\ spanning_trees = <<>>
    /\ corrections = <<>>
    /\ result = 0
    /\ cycle = 0
    /\ logical_fail = 0
    /\ args = <<>>
    /\ returned = 0
    /\ vertex_map = EmptyVertexMap
    /\ num_vertices = 0

Idle ==
    /\ pc = "start"
    /\ Fresh

\* a toric code has been constructed
Init ==
    /\ code \in { ToricCodes[d] : d \in ToricDims }
    /\ Idle

RECURSIVE MasksUpTo(_, _)
\* the masks over bits 0..n-1 with at most k set bits
MasksUpTo(n, k) ==
    IF k = 0 THEN {0}
    ELSE LET prev == MasksUpTo(n, k - 1)
         IN  prev \cup { Or(m, Shl(1, i)) : m \in prev, i \in 0..(n - 1) }

(***************************************************************************)
(* Callers.                                                                *)
(***************************************************************************)
\* lines 76-88 of syndrome_validation_naive: the locals at entry
EnterValidation(syndrome, type) ==
    /\ syndrome_type' = type
    /\ syndrome_string' = syndrome
    /\ syn' = syndrome
    /\ full_step' = 0
    /\ first_step' = 1
    /\ count' = 0
    /\ stabilizer_index' = 0
    /\ odd_clusters' = <<>>
    /\ even_clusters' = <<>>
    /\ pc' = "while"

\* examples/toric_threshold_plotting.py 24-25: num_data_qubits is computed
\* once, before the loop over the distances, from the first value of
\* dimension (StaleDimension), and is never computed again for a code
num_data_qubits == StaleDimension * StaleDimension - StaleDimension

\* lines 46-50: error_string = 0, then for each i in range(num_data_qubits)
\* error_string |= flip and error_string <<= 1; bit i of flips is the draw
\* of iteration i
SampleLoop(flips) ==
    LET e[i \in 0..num_data_qubits] ==
            IF i = 0 THEN 0
            ELSE Shl(Or(e[i - 1], IF Bit(flips, i - 1) THEN 1 ELSE 0), 1)
    IN  e[num_data_qubits]

\* examples/toric_threshold_plotting.py 46-53: an X error and its syndrome
SampleError ==
    /\ pc = "start"
    /\ \E flips \in MasksUpTo(num_data_qubits, MaxErrorWeight) :
         /\ error_string' = SampleLoop(flips)
         /\ error_syn' = generate_syndrome(code, SampleLoop(flips), "x",
                                           FALSE)
    /\ pc' = "sampled"
    /\ UNCHANGED << code, error_type, show_all_adjacent, syndrome_type,
                    decoderVars, outputVars >>
    /\ UNCHANGED << driverVars, apiVars, graphVars >>

\* lines 56-57: if not error_syn: continue (back to the test of line 44)
DiscardTrial ==
    /\ pc = "sampled"
    /\ error_syn = 0
    /\ pc' = IF cycle < max_cycles THEN "start" ELSE "reported"
    /\ UNCHANGED << code, inputVars, decoderVars, outputVars >>
    /\ UNCHANGED << driverVars, apiVars, graphVars >>

\* line 60: clusters, count = syndrome_validation_naive(error_syn, code)
DecodeTrial ==
    /\ pc = "sampled"
    /\ error_syn # 0
    /\ EnterValidation(error_syn, "z")
    /\ UNCHANGED << code, error_string, error_type, show_all_adjacent,
                    error_syn, outputVars >>
    /\ UNCHANGED << driverVars, apiVars, graphVars >>

\* a direct call with a syndrome mask over the parity checks of a type
CallValidation ==
    /\ pc = "start"
    /\ \E s \in 0..(Shl(1, code.num_parity_check_qubits) - 1),
          t \in {"x", "z"} :
         /\ error_syn' = s
         /\ EnterValidation(s, t)
    /\ error_string' = NoError
    /\ UNCHANGED << code, error_type, show_all_adjacent, outputVars >>
    /\ UNCHANGED << driverVars, apiVars, graphVars >>

(***************************************************************************)
(* syndrome_validation_naive.                                              *)
(***************************************************************************)
\* line 90: while syndrome_string > 0 ... else line 152: return
WhileCheck ==
    /\ pc = "while"
    /\ IF syndrome_string > 0
       THEN pc' = "for" /\ stabilizer_index' = 0
       ELSE pc' = "validated" /\ UNCHANGED stabilizer_index
    /\ UNCHANGED << code, inputVars, syndrome_string, syn, full_step,
                    first_step, count, odd_clusters, even_clusters,
                    outputVars >>
    /\ UNCHANGED << driverVars, apiVars, graphVars >>

\* lines 94-144: one pass of the for loop body
ForStep ==
    /\ pc = "for"
    /\ stabilizer_index < Len(ParityChecks(code, syndrome_type))
    /\ IF And(syn, 1) # 0 /\ ~HasKey(even_clusters, stabilizer_index)
       THEN IF /\ full_step = 1
               /\ \/ ~HasKey(odd_clusters, stabilizer_index)
                  \/ code.kind = "rplanar"
            THEN \* KeyError at line 107, or TypeError at lines 108-110:
                 \* RPlanarCode.generate_syndrome takes no show_all_adjacent
                 /\ pc' = "crashed"
                 /\ UNCHANGED << syndrome_string, syn, first_step,
                                 stabilizer_index, odd_clusters,
                                 even_clusters >>
            ELSE LET grown == IF full_step = 0
                              THEN HalfStep(code, odd_clusters,
                                            stabilizer_index, syndrome_type,
                                            first_step)
                              ELSE FullStep(code, odd_clusters,
                                            stabilizer_index)
                     root_merge == MergeScan(grown, stabilizer_index,
                                             full_step)
                     fused == Fuse(grown, even_clusters, syndrome_string,
                                   stabilizer_index, root_merge)
                 IN  /\ first_step' = IF full_step = 1 THEN 0 ELSE first_step
                     /\ IF root_merge # -1
                        THEN /\ odd_clusters' = fused.odd
                             /\ even_clusters' = fused.even
                             /\ syndrome_string' = fused.syndrome
                        ELSE /\ odd_clusters' = grown
                             /\ UNCHANGED << even_clusters, syndrome_string >>
                     /\ syn' = Shr(syn, 1)
                     /\ stabilizer_index' = stabilizer_index + 1
                     /\ pc' = "for"
       ELSE /\ syn' = Shr(syn, 1)
            /\ stabilizer_index' = stabilizer_index + 1
            /\ pc' = "for"
            /\ UNCHANGED << syndrome_string, first_step, odd_clusters,
                            even_clusters >>
    /\ UNCHANGED << code, inputVars, full_step, count, outputVars >>
    /\ UNCHANGED << driverVars, apiVars, graphVars >>

\* an end of sweep that never switches between half and full steps
ForEndSameStep ==
    /\ pc = "for"
    /\ stabilizer_index = Len(ParityChecks(code, syndrome_type))
    /\ IF syn = 0
       THEN /\ count' = IF count < MaxCount THEN count + 1 ELSE MaxCount
            /\ IF odd_clusters # <<>>
               THEN syn' = syndrome_string
               ELSE UNCHANGED syn
       ELSE UNCHANGED << count, syn >>
    /\ pc' = "while"
    /\ UNCHANGED << code, inputVars, syndrome_string, first_step, full_step,
                    stabilizer_index, odd_clusters, even_clusters,
                    outputVars >>
    /\ UNCHANGED << driverVars, apiVars, graphVars >>

\* lines 146-150: the end of a sweep
ForEnd ==
    /\ pc = "for"
    /\ stabilizer_index = Len(ParityChecks(code, syndrome_type))
    /\ IF syn = 0
       THEN /\ count' = IF count < MaxCount THEN count + 1 ELSE MaxCount
            /\ IF odd_clusters # <<>>
               THEN syn' = syndrome_string /\ full_step' = 1 - full_step
               ELSE UNCHANGED << syn, full_step >>
       ELSE UNCHANGED << count, syn, full_step >>
    /\ pc' = "while"
    /\ UNCHANGED << code, inputVars, syndrome_string, first_step,
                    stabilizer_index, odd_clusters, even_clusters,
                    outputVars >>
    /\ UNCHANGED << driverVars, apiVars, graphVars >>

(***************************************************************************)
(* The rest of the pipeline.                                               *)
(***************************************************************************)
\* spanning_trees = generate_spanning_trees(clusters, code, error_syn)
GenerateSpanningTrees ==
    /\ pc = "validated"
    /\ LET r == generate_spanning_trees(even_clusters, code, syndrome_type)
       IN  IF r.crashed
           THEN pc' = "crashed" /\ UNCHANGED spanning_trees
           ELSE pc' = "trees" /\ spanning_trees' = r.trees
    /\ UNCHANGED << code, inputVars, decoderVars, corrections, result >>
    /\ UNCHANGED << driverVars, apiVars, graphVars >>

\* corrections = tree_peeler(spanning_trees, error_syn)
TreePeeler ==
    /\ pc = "trees"
    /\ LET r == tree_peeler(spanning_trees, error_syn)
       IN  /\ spanning_trees' = r.trees
           /\ corrections' = r.corrections
    /\ pc' = "peeled"
    /\ UNCHANGED << code, inputVars, decoderVars, result >>
    /\ UNCHANGED << driverVars, apiVars, graphVars >>

\* examples/toric_threshold_plotting.py 65-71: the residual syndrome
ResidualCheck ==
    /\ pc = "peeled"
    /\ error_string # NoError
    /\ LET total_correction ==
               convert_qubit_list_to_binary(SumLists(corrections, 1))
       IN  result' = generate_syndrome(code,
                         Xor(error_string, total_correction), "x", FALSE)
    /\ pc' = "done"
    /\ UNCHANGED << code, inputVars, decoderVars, spanning_trees,
                    corrections >>
    /\ UNCHANGED << driverVars, apiVars, graphVars >>

Next ==
    \/ SampleError
    \/ DiscardTrial
    \/ DecodeTrial
    \/ CallValidation
    \/ WhileCheck
    \/ ForStep
    \/ ForEnd
    \/ GenerateSpanningTrees
    \/ TreePeeler
    \/ ResidualCheck

Spec == Init /\ [][Next]_vars

\* a call of syndrome_validation_naive is synchronous and has no suspension
\* points: its loops keep executing while a step is possible
ValidationStep == WhileCheck \/ ForStep \/ ForEnd

FairSpec == Spec /\ WF_vars(ValidationStep)

(***************************************************************************)
(* The trial loop of examples/toric_threshold_plotting.py for one grid     *)
(* point (dimension, prob).  is_logical_error has no body; it is taken to  *)
(* return None.                                                            *)
(***************************************************************************)
\* lines 73-74, then the loop test of line 44 and the report of line 76;
\* no statement of the loop assigns cycle.  Every local of a trial is
\* assigned again before the next trial reads it, so they are cleared.
EndTrial ==
    /\ pc = "done"
    /\ logical_fail' = IF result # 0 /\ logical_fail < MaxFail
                       THEN logical_fail + 1 ELSE logical_fail
    /\ UNCHANGED cycle
    /\ pc' = IF cycle < max_cycles THEN "start" ELSE "reported"
    /\ error_string' = NoError
    /\ error_syn' = 0
    /\ syndrome_string' = 0
    /\ syn' = 0
    /\ full_step' = 0
    /\ first_step' = 1
    /\ count' = 0
    /\ stabilizer_index' = 0
    /\ odd_clusters' = <<>>
    /\ even_clusters' = <<>>
    /\ spanning_trees' = <<>>
    /\ corrections' = <<>>
    /\ result' = 0
    /\ UNCHANGED << code, error_type, show_all_adjacent, syndrome_type,
                    apiVars, graphVars >>

NextDriver ==
    \/ SampleError
    \/ DiscardTrial
    \/ DecodeTrial
    \/ WhileCheck
    \/ ForStep
    \/ ForEnd
    \/ GenerateSpanningTrees
    \/ TreePeeler
    \/ ResidualCheck
    \/ EndTrial

\* the script runs on its own: it keeps executing while a step is possible
SpecDriver == Init /\ [][NextDriver]_vars /\ WF_vars(NextDriver)

(***************************************************************************)
(* The same pipeline over a rotated planar code                            *)
(* (examples/rplanar_surface_decoding.py).                                 *)
(***************************************************************************)
InitPlanar ==
    /\ code \in { RPlanarCodes[d] : d \in RPlanarDims }
    /\ Idle

SpecPlanar == InitPlanar /\ [][Next]_vars

(***************************************************************************)
(* The constructors, generate_syndrome, get_parity_checks and the list     *)
(* helper called on their own, on every code that can be built.            *)
(* RPlanarCode.generate_syndrome has no show_all_adjacent parameter.       *)
(***************************************************************************)
\* no code object yet: a constructor has not returned
NoCode ==
    [ kind |-> "none", width |-> 0, length |-> 0,
      num_parity_check_qubits |-> 0, num_data_qubits |-> 0,
      z |-> <<>>, x |-> <<>> ]

InitSyndrome ==
    /\ code = NoCode
    /\ pc = "new"
    /\ Fresh

\* ToricCode(width, length): AbstractSurfaceCode.__init__ checks the
\* dimensions first, then ToricCode.__init__ builds the tables
ConstructToric ==
    /\ pc = "new"
    /\ \E w \in 0..MaxChecks, l \in 0..MaxChecks :
         /\ w * l <= MaxChecks
         /\ args' = << w, l >>
         /\ IF ToricAccepts(w, l)
            THEN code' = ToricCode(w, l) /\ pc' = "start"
            ELSE code' = NoCode /\ pc' = "ValueError"
    /\ UNCHANGED << inputVars, decoderVars, outputVars, driverVars,
                    returned, graphVars >>

\* a constructor that misplaces the first weight-2 X check
ConstructRPlanarShifted ==
    /\ pc = "new"
    /\ \E d \in 1..MaxDimension :
         /\ args' = << d >>
         /\ IF RPlanarAccepts(d)
            THEN code' = RPlanarCodeShiftedBoundary(d) /\ pc' = "start"
            ELSE code' = NoCode /\ pc' = "ValueError"
    /\ UNCHANGED << inputVars, decoderVars, outputVars, driverVars,
                    returned, graphVars >>

\* RPlanarCode(dimension)
ConstructRPlanar ==
    /\ pc = "new"
    /\ \E d \in 1..MaxDimension :
         /\ args' = << d >>
         /\ IF RPlanarAccepts(d)
            THEN code' = RPlanarCode(d) /\ pc' = "start"
            ELSE code' = NoCode /\ pc' = "ValueError"
    /\ UNCHANGED << inputVars, decoderVars, outputVars, driverVars,
                    returned, graphVars >>

\* code.generate_syndrome(error_string, error_type, show_all_adjacent);
\* "y" stands for an error type that is neither "x" nor "z"
CallGenerateSyndrome ==
    /\ pc = "start"
    /\ \E e \in MasksUpTo(code.num_data_qubits, MaxMaskWeight),
          t \in {"x", "z", "y"},
          a \in IF code.kind = "toric" THEN BOOLEAN ELSE {FALSE} :
         /\ error_string' = e
         /\ error_type' = t
         /\ show_all_adjacent' = a
         /\ error_syn' = generate_syndrome(code, e, t, a)
    /\ pc' = "syndrome"
    /\ UNCHANGED << code, syndrome_type, decoderVars, outputVars >>
    /\ UNCHANGED << driverVars, apiVars, graphVars >>

\* code.get_parity_checks(index, parity_check_type) with an integer index;
\* a Python list takes the indexes -N..-1 as positions counted from the end
CallGetParityChecks ==
    /\ pc = "start"
    /\ code.kind = "toric"
    /\ \E index \in (0 - code.num_parity_check_qubits - 1)
                        ..code.num_parity_check_qubits,
          parity_check_type \in {"x", "z", "y"} :
         LET num == code.num_parity_check_qubits
         IN  /\ args' = << index, parity_check_type >>
             /\ IF parity_check_type \notin {"x", "z"}
                THEN pc' = "ValueError" /\ UNCHANGED returned
                ELSE IF index >= num \/ index < 0 - num
                THEN pc' = "IndexError" /\ UNCHANGED returned
                ELSE /\ pc' = "parity_check"
                     /\ returned' =
                          get_stabilizers(code,
                              IF index < 0 THEN index + num ELSE index,
                              parity_check_type)
    /\ UNCHANGED << code, inputVars, decoderVars, outputVars, driverVars,
                    graphVars >>

\* convert_qubit_list_to_binary(error_string) on a list of qubit indexes
CallConvertQubitList ==
    /\ pc = "start"
    /\ \E n \in 0..MaxListLen :
         \E list \in [1..n -> 0..MaxListLen] :
            /\ args' = << list >>
            /\ returned' = convert_qubit_list_to_binary(list)
    /\ pc' = "binary"
    /\ UNCHANGED << code, inputVars, decoderVars, outputVars, driverVars,
                    graphVars >>

NextSyndrome ==
    \/ ConstructToric
    \/ ConstructRPlanar
    \/ CallGenerateSyndrome
    \/ CallGetParityChecks
    \/ CallConvertQubitList

SpecSyndrome == InitSyndrome /\ [][NextSyndrome]_vars

(***************************************************************************)
(* union_find_naive (quantum_ex.py): the earlier form of the growth loop,  *)
(* a single while True loop over the module's rotated planar code.  Its    *)
(* full step calls generate_syndrome(data_tree, show_all_adjacent=True),   *)
(* a keyword RPlanarCode.generate_syndrome does not take (TypeError).      *)
(***************************************************************************)
InitNaive ==
    /\ code \in { RPlanarCodes[d] : d \in RPlanarDims }
    /\ Idle

\* lines 35-42: the locals at entry
CallUnionFindNaive ==
    /\ pc = "start"
    /\ \E s \in 0..(Shl(1, code.num_parity_check_qubits) - 1),
          t \in {"x", "z"} :
         /\ error_syn' = s
         /\ syndrome_type' = t
         /\ syndrome_string' = s
         /\ syn' = s
    /\ full_step' = 0
    /\ first_step' = 1
    /\ count' = 0
    /\ stabilizer_index' = 0
    /\ odd_clusters' = <<>>
    /\ even_clusters' = <<>>
    /\ pc' = "naive"
    /\ error_string' = NoError
    /\ UNCHANGED << code, error_type, show_all_adjacent, outputVars >>
    /\ UNCHANGED << driverVars, apiVars, graphVars >>

\* lines 63-71: root_merge = 0, then the first other odd cluster that meets
NaiveMergeScan(odd, index, step) ==
    LET root == MergeScan(odd, index, step)
    IN  IF root = -1 THEN 0 ELSE root

\* lines 43-97: one pass of the while True loop
NaiveIteration ==
    /\ pc = "naive"
    /\ LET active == /\ ~HasKey(even_clusters, stabilizer_index)
                     /\ And(syn, 1) # 0
       IN  IF active /\ full_step = 1
           THEN \* TypeError at lines 55-57
                /\ pc' = "crashed"
                /\ UNCHANGED decoderVars
           ELSE LET grown == IF active
                             THEN HalfStep(code, odd_clusters,
                                           stabilizer_index, syndrome_type,
                                           first_step)
                             ELSE odd_clusters
                    root_merge == IF active
                                  THEN NaiveMergeScan(grown,
                                                      stabilizer_index,
                                                      full_step)
                                  ELSE 0
                    fused == Fuse(grown, even_clusters, syndrome_string,
                                  stabilizer_index, root_merge)
                    odd == IF root_merge # 0 THEN fused.odd ELSE grown
                    string == IF root_merge # 0 THEN fused.syndrome
                              ELSE syndrome_string
                IN  /\ odd_clusters' = odd
                    /\ even_clusters' = IF root_merge # 0 THEN fused.even
                                        ELSE even_clusters
                    /\ syndrome_string' = string
                    /\ UNCHANGED first_step
                    /\ IF Shr(syn, 1) = 0
                       THEN /\ count' = IF count < MaxCount THEN count + 1
                                        ELSE MaxCount
                            /\ IF odd # <<>>
                               THEN /\ syn' = string
                                    /\ full_step' = 1 - full_step
                                    /\ stabilizer_index' = 0
                                    /\ pc' = "naive"
                               ELSE /\ syn' = 0
                                    /\ UNCHANGED << full_step,
                                                    stabilizer_index >>
                                    /\ pc' = "validated"
                       ELSE /\ syn' = Shr(syn, 1)
                            /\ stabilizer_index' = stabilizer_index + 1
                            /\ pc' = "naive"
                            /\ UNCHANGED << count, full_step >>
    /\ UNCHANGED << code, inputVars, outputVars >>
    /\ UNCHANGED << driverVars, apiVars, graphVars >>

NextNaive == CallUnionFindNaive \/ NaiveIteration

SpecNaive == InitNaive /\ [][NextNaive]_vars

(***************************************************************************)
(* Vocabulary of the properties.                                           *)
(***************************************************************************)
\* syndrome_validation_naive has returned its even clusters
ValidationReturned == pc \in {"validated", "trees", "peeled", "done"}

\* the call is inside the growth loop
InGrowthLoop == pc \in {"while", "for"}

EvenInput == CountOnes(error_syn) % 2 = 0

\* the set of bit positions of a mask
Bits(mask) == { i \in 0..30 : Bit(mask, i) }

RECURSIVE MaskOf(_)
\* the mask with exactly the bits of a set
MaskOf(S) ==
    IF S = {} THEN 0
    ELSE LET q == CHOOSE q \in S : TRUE
         IN  Shl(1, q) + MaskOf(S \ {q})

\* the entries of a spanning tree that are edges (not None)
TreeEdges(tree) == { j \in 1..Len(tree) : tree[j] # <<>> }

\* the stabilizers named as parent or child by an edge of a tree
TreeVertices(tree) ==
    UNION { { tree[j][1], tree[j][2] } : j \in TreeEdges(tree) }

\* the number of times a data qubit occurs in a correction list
Occurrences(list, q) == Cardinality({ j \in 1..Len(list) : list[j] = q })

\* the union of all clusters' correction edges, as a data mask
UnionOfCorrections ==
    MaskOf(UNION { { corrections[k].edges[j] :
                       j \in 1..Len(corrections[k].edges) } :
                   k \in 1..Len(corrections) })

\* the data mask of one cluster's correction: each chosen edge flipped once
CorrectionMask(k) ==
    MaskOf({ q \in 0..(code.num_data_qubits - 1) :
               Occurrences(corrections[k].edges, q) % 2 = 1 })

(***************************************************************************)
(* Closure, disjointness and parity of the returned clusters.              *)
(***************************************************************************)
\* C1: after uf_decode returns on a toric code for an even-popcount
\* syndrome, every lit bit of the input lies in the syndrome_support of
\* exactly one returned cluster, and every returned root is a bit of its
\* own cluster's syndrome_support.
C1_DecoderClosure ==
    (ValidationReturned /\ code.kind = "toric" /\ EvenInput) =>
        /\ \A i \in Bits(error_syn) :
             Cardinality({ k \in 1..Len(even_clusters) :
                             Bit(even_clusters[k].syndrome, i) }) = 1
        /\ \A k \in 1..Len(even_clusters) :
             Bit(even_clusters[k].syndrome, even_clusters[k].root)

\* C2: two distinct returned even clusters have no syndrome_support bit in
\* common.
C2_Disjointness ==
    ValidationReturned =>
        \A j, k \in 1..Len(even_clusters) :
            j # k => And(even_clusters[j].syndrome,
                         even_clusters[k].syndrome) = 0

\* C3: every returned cluster covers an even number of the originally lit
\* syndrome bits.
C3_ClustersEven ==
    ValidationReturned =>
        \A k \in 1..Len(even_clusters) :
            CountOnes(And(even_clusters[k].syndrome, error_syn)) % 2 = 0

(***************************************************************************)
(* Termination of the growth loop.                                         *)
(***************************************************************************)
\* C4: on a toric code, for a syndrome of even popcount with all bits below
\* N_stab, the growth loop terminates: eventually odd_clusters is empty,
\* the working syndrome is 0 and the call returns.
C4_Termination ==
    (InGrowthLoop /\ code.kind = "toric" /\ EvenInput)
        ~> (pc = "validated" /\ odd_clusters = <<>> /\ syndrome_string = 0)

\* a call on four or more lit bits that needed a full step has returned
C4_Witness ==
    /\ pc = "validated"
    /\ CountOnes(error_syn) >= 4
    /\ count >= 2
    /\ Len(even_clusters) >= 2
    /\ odd_clusters = <<>>
    /\ syndrome_string = 0

\* C5: a call with a syndrome of odd popcount on a toric code reaches an
\* error outcome surfaced to the caller (it neither returns clusters nor
\* keeps growing).  The only error outcome of the code is a propagated
\* exception.
C5_OddSyndromeSurfaced ==
    (InGrowthLoop /\ code.kind = "toric" /\ ~EvenInput) ~> (pc = "crashed")

(***************************************************************************)
(* Corrections.                                                            *)
(***************************************************************************)
\* C6: for an X error e on a toric code, XOR-ing the union c of all
\* clusters' correction edges into e leaves an empty syndrome.
C6_ResidualEmpty ==
    (pc = "done" /\ code.kind = "toric") =>
        generate_syndrome(code, Xor(error_string, UnionOfCorrections),
                          "x", FALSE) = 0

\* C7: for each cluster on its own, the syndrome induced by the cluster's
\* peeled correction agrees with the original syndrome on the bits of the
\* cluster's syndrome_support.
C7_CorrectionValidity ==
    (pc \in {"peeled", "done"}) =>
        \A k \in 1..Len(corrections) :
            And(generate_syndrome(code, CorrectionMask(k),
                                  OtherType(syndrome_type), FALSE),
                even_clusters[k].syndrome)
            = And(error_syn, even_clusters[k].syndrome)

(***************************************************************************)
(* Spanning trees.                                                         *)
(***************************************************************************)
\* C8: the spanning tree of each returned cluster has exactly
\* popcount(syndrome_support) - 1 edges and every vertex of
\* syndrome_support is a parent or a child of some edge.
C8_TreeSpansCluster ==
    (pc = "trees") =>
        \A k \in 1..Len(spanning_trees) :
            /\ Cardinality(TreeEdges(spanning_trees[k].tree))
                 = CountOnes(even_clusters[k].syndrome) - 1
            /\ Bits(even_clusters[k].syndrome)
                 \subseteq TreeVertices(spanning_trees[k].tree)

\* C9: every edge (parent, child, edge_data_qubit) of a spanning tree uses a
\* data qubit of the cluster's data_support that lies in the support of
\* both the parent and the child stabilizer.
C9_EdgesInsideCluster ==
    (pc = "trees") =>
        \A k \in 1..Len(spanning_trees) :
            \A j \in TreeEdges(spanning_trees[k].tree) :
                LET edge == spanning_trees[k].tree[j]
                IN  /\ Bit(even_clusters[k].data, edge[3])
                    /\ Bit(get_stabilizers(code, edge[1], syndrome_type),
                           edge[3])
                    /\ Bit(get_stabilizers(code, edge[2], syndrome_type),
                           edge[3])

(***************************************************************************)
(* Parity-check soundness.                                                 *)
(***************************************************************************)
\* C10: with show_all_adjacent = false, bit i of generate_syndrome(e,
\* error_type) is the parity of the number of data qubits shared by e and
\* stabilizer i of the opposite type, and no bit at or above N_stab is set.
C10_ParitySoundness ==
    (pc = "syndrome" /\ ~show_all_adjacent) =>
        LET checks == ParityChecks(code, OtherType(error_type))
        IN  /\ \A i \in 0..(Len(checks) - 1) :
                 Bit(error_syn, i)
                 <=> Cardinality(Bits(checks[i + 1])
                                 \cap Bits(error_string)) % 2 = 1
            /\ error_syn < Shl(1, code.num_parity_check_qubits)

\* a mask sharing two qubits with one check and one with another
C10_Witness ==
    /\ pc = "syndrome"
    /\ ~show_all_adjacent
    /\ LET checks == ParityChecks(code, OtherType(error_type))
       IN  /\ \E i \in 1..Len(checks) :
                Cardinality(Bits(checks[i]) \cap Bits(error_string)) = 2
           /\ \E i \in 1..Len(checks) :
                Cardinality(Bits(checks[i]) \cap Bits(error_string)) = 1

(***************************************************************************)
(* Adjacency mode of generate_syndrome.                                    *)
(***************************************************************************)
\* C11: with show_all_adjacent = true, bit i of generate_syndrome(e,
\* error_type) is set iff stabilizer i of the opposite type shares at least
\* one data qubit with e; hence the result contains every bit of the
\* parity-mode syndrome of the same mask.
C11_AdjacencyMode ==
    (pc = "syndrome" /\ show_all_adjacent) =>
        LET checks == ParityChecks(code, OtherType(error_type))
            parity == generate_syndrome(code, error_string, error_type,
                                        FALSE)
        IN  /\ \A i \in 0..(Len(checks) - 1) :
                 Bit(error_syn, i)
                 <=> (Bits(checks[i + 1]) \cap Bits(error_string)) # {}
            /\ And(parity, error_syn) = parity

\* an adjacency call on a mask sharing two qubits with one check, which
\* the parity mode cancels
C11_Witness ==
    /\ pc = "syndrome"
    /\ show_all_adjacent
    /\ LET checks == ParityChecks(code, OtherType(error_type))
       IN  \E i \in 1..Len(checks) :
             /\ Cardinality(Bits(checks[i]) \cap Bits(error_string)) = 2
             /\ Bit(error_syn, i - 1)
             /\ ~Bit(generate_syndrome(code, error_string, error_type,
                                       FALSE), i - 1)

(***************************************************************************)
(* The empty syndrome.                                                     *)
(***************************************************************************)
\* C12: uf_decode on the empty syndrome (mask 0) returns an empty
\* even-cluster mapping and a round count of 0, for either syndrome type
\* and any code.
C12_EmptySyndrome ==
    (pc = "validated" /\ error_syn = 0) =>
        (even_clusters = <<>> /\ count = 0)

(***************************************************************************)
(* The list helper.                                                        *)
(***************************************************************************)
\* C13: convert_qubit_list_to_binary sets bit i for each index i of its
\* input list and nothing else, so a list with repeated indexes yields the
\* same mask as the list with the duplicates removed.
C13_FromIndices ==
    (pc = "binary") =>
        returned = MaskOf({ args[1][j] : j \in 1..Len(args[1]) })

(***************************************************************************)
(* Construction.                                                           *)
(***************************************************************************)
\* C14: constructing a rotated planar code rejects every even dimension and
\* dimension 1: a rotated planar code exists only for an odd dimension of
\* at least 3.
C14_EvenDimensionRejected ==
    (code.kind = "rplanar") => (code.width % 2 = 1 /\ code.width >= 3)

\* C15: constructing a toric code with W <= 1 or L <= 1 fails with a
\* ValueError and leaves no code (no table is built); every W >= 2, L >= 2
\* is accepted.
C15_ToricDimensionsChecked ==
    /\ (code.kind = "toric") => (code.width >= 2 /\ code.length >= 2)
    /\ (pc = "ValueError" /\ code = NoCode /\ Len(args) = 2) =>
           (args[1] <= 1 \/ args[2] <= 1)

\* ToricCode(1, 3) has been rejected
C15_Witness ==
    /\ pc = "ValueError"
    /\ code = NoCode
    /\ args = << 1, 3 >>

\* C16: a stabilizer lookup with a type outside {x, z} or an index outside
\* 0..N_stab-1 (a negative index included) never returns a mask, and
\* generate_syndrome with an unknown error_type never returns a syndrome.
C16_InvalidArgumentsRejected ==
    /\ (pc = "parity_check") =>
           /\ args[2] \in {"x", "z"}
           /\ args[1] \in 0..(code.num_parity_check_qubits - 1)
    /\ (pc = "syndrome") => error_type \in {"x", "z"}

(***************************************************************************)
(* Shape of the parity-check tables.                                       *)
(***************************************************************************)
\* C17: ToricCode(W, L) has 2*W*L data qubits, exactly W*L Z checks and W*L
\* X checks, and every check has exactly four set bits, all below 2*W*L.
C17_ToricLattice ==
    (code.kind = "toric") =>
        LET num == code.width * code.length
        IN  /\ code.num_data_qubits = 2 * num
            /\ code.num_parity_check_qubits = num
            /\ \A t \in {"x", "z"} :
                 /\ Len(ParityChecks(code, t)) = num
                 /\ \A i \in 1..num :
                      /\ CountOnes(ParityChecks(code, t)[i]) = 4
                      /\ ParityChecks(code, t)[i] < Shl(1, 2 * num)

\* a toric code whose checks wrap in both axes has been built
C17_Witness ==
    /\ pc = "start"
    /\ code.kind = "toric"
    /\ code.width = 3
    /\ code.length = 3
    /\ Len(code.z) = 9

\* the weight-2 masks of two vertically adjacent qubits of the left or the
\* right column
LeftRightPairs(D) ==
    { Shl(1, r * D + col) + Shl(1, (r + 1) * D + col) :
        r \in 0..(D - 2), col \in {0, D - 1} }

\* the weight-2 masks of two horizontally adjacent qubits of the top or the
\* bottom row
TopBottomPairs(D) ==
    { Shl(1, row * D + c) + Shl(1, row * D + c + 1) :
        c \in 0..(D - 2), row \in {0, D - 1} }

\* C18: for odd D >= 3 the rotated planar code has (D*D-1)/2 checks of each
\* type, every check lies within qubits 0..D*D-1 and has weight 2 or 4,
\* the weight-2 Z checks are exactly D-1 checks on the left/right columns
\* and the weight-2 X checks are exactly D-1 checks on the top/bottom rows.
C18_RPlanarLattice ==
    (code.kind = "rplanar" /\ code.width % 2 = 1 /\ code.width >= 3) =>
        LET D == code.width
            num == (D * D - 1) \div 2
            light(t) == { i \in 1..Len(ParityChecks(code, t)) :
                            CountOnes(ParityChecks(code, t)[i]) = 2 }
        IN  /\ \A t \in {"x", "z"} :
                 /\ Len(ParityChecks(code, t)) = num
                 /\ Cardinality(light(t)) = D - 1
                 /\ \A i \in 1..Len(ParityChecks(code, t)) :
                      /\ CountOnes(ParityChecks(code, t)[i]) \in {2, 4}
                      /\ ParityChecks(code, t)[i] < Shl(1, D * D)
            /\ \A i \in light("z") : code.z[i] \in LeftRightPairs(D)
            /\ \A i \in light("x") : code.x[i] \in TopBottomPairs(D)
            /\ \A i, j \in light("z") : i # j => code.z[i] # code.z[j]
            /\ \A i, j \in light("x") : i # j => code.x[i] # code.x[j]

\* the rotated planar code of dimension 3 has been built
C18_Witness ==
    /\ pc = "start"
    /\ code.kind = "rplanar"
    /\ code.width = 3
    /\ Len(code.z) = 4
    /\ Len(code.x) = 4

C20_TrialLoopFinishes == <>(pc = "reported" /\ cycle = max_cycles)

(***************************************************************************)
(* Behaviour of the growth loop.                                           *)
(***************************************************************************)
\* all clusters held by the decoder, odd ones first
AllClusters == odd_clusters \o even_clusters

\* a growth sweep has just been completed
SweepDone == pc \in {"while", "validated"} /\ count >= 1

\* C21: at the end of every growth sweep on a syndrome of even popcount,
\* any two distinct clusters, odd or even, have disjoint data_support and
\* disjoint syndrome_support.
C21_ClustersDisjoint ==
    (SweepDone /\ EvenInput) =>
        \A j, k \in 1..Len(AllClusters) :
            j # k =>
                /\ And(AllClusters[j].data, AllClusters[k].data) = 0
                /\ And(AllClusters[j].syndrome, AllClusters[k].syndrome) = 0

(***************************************************************************)
(* syndrome_validation_naive of quantum/error_correction/decoders/         *)
(* union_find/uf.py: the growth loop over code._stabilizers, an attribute  *)
(* only the module's rotated planar code has.  Its locals, its while test  *)
(* and the end of its sweep are those of the loop above; the body of its   *)
(* for loop differs in the scan for a cluster to fuse with.                *)
(***************************************************************************)
\* lines 62-70: root_merge = 0, then only the first other odd cluster, in
\* dictionary order, is examined (the break follows the inner if)
UfMergeScan(odd, index, step) ==
    LET others == { j \in 1..Len(odd) : odd[j].root # index }
        first == CHOOSE j \in others : \A k \in others : j <= k
    IN  IF others = {} THEN 0
        ELSE IF CountOnes(And(Tree(DictGet(odd, index), step),
                              Tree(odd[first], step))) >= 1
             THEN odd[first].root
             ELSE 0

\* lines 41-87: one pass of the for loop body
UfForStep ==
    /\ pc = "for"
    /\ stabilizer_index < Len(ParityChecks(code, syndrome_type))
    /\ IF And(syn, 1) # 0 /\ ~HasKey(even_clusters, stabilizer_index)
       THEN IF full_step = 1
            THEN \* KeyError at line 53, or TypeError at lines 54-56:
                 \* RPlanarCode.generate_syndrome takes no show_all_adjacent
                 /\ pc' = "crashed"
                 /\ UNCHANGED << syndrome_string, syn, first_step,
                                 stabilizer_index, odd_clusters,
                                 even_clusters >>
            ELSE LET grown == HalfStep(code, odd_clusters, stabilizer_index,
                                       syndrome_type, first_step)
                     root_merge == UfMergeScan(grown, stabilizer_index,
                                               full_step)
                     fused == Fuse(grown, even_clusters, syndrome_string,
                                   stabilizer_index, root_merge)
                 IN  /\ UNCHANGED first_step
                     /\ IF root_merge # 0
                        THEN /\ odd_clusters' = fused.odd
                             /\ even_clusters' = fused.even
                             /\ syndrome_string' = fused.syndrome
                        ELSE /\ odd_clusters' = grown
                             /\ UNCHANGED << even_clusters, syndrome_string >>
                     /\ syn' = Shr(syn, 1)
                     /\ stabilizer_index' = stabilizer_index + 1
                     /\ pc' = "for"
       ELSE /\ syn' = Shr(syn, 1)
            /\ stabilizer_index' = stabilizer_index + 1
            /\ pc' = "for"
            /\ UNCHANGED << syndrome_string, first_step, odd_clusters,
                            even_clusters >>
    /\ UNCHANGED << code, inputVars, full_step, count, outputVars >>
    /\ UNCHANGED << driverVars, apiVars, graphVars >>

NextUf == CallValidation \/ WhileCheck \/ UfForStep \/ ForEnd

\* the call is synchronous: the loops keep executing while a step is possible
SpecUf == InitPlanar /\ [][NextUf]_vars /\ WF_vars(NextUf)

(***************************************************************************)
(* The fusion step.                                                        *)
(***************************************************************************)
\* the for loop is at a lit stabilizer that roots no even cluster
Active ==
    /\ pc = "for"
    /\ stabilizer_index < Len(ParityChecks(code, syndrome_type))
    /\ And(syn, 1) # 0
    /\ ~HasKey(even_clusters, stabilizer_index)

\* odd_clusters once the cluster at stabilizer_index has been extended
Extended ==
    IF full_step = 0
    THEN HalfStep(code, odd_clusters, stabilizer_index, syndrome_type,
                  first_step)
    ELSE FullStep(code, odd_clusters, stabilizer_index)

\* the roots of the other odd clusters the extended cluster intersects on
\* the active dimension
Intersecting ==
    { r \in { Extended[j].root : j \in 1..Len(Extended) } :
        /\ r # stabilizer_index
        /\ And(Tree(DictGet(Extended, stabilizer_index), full_step),
               Tree(DictGet(Extended, r), full_step)) # 0 }

\* the step fuses the extended cluster with the odd cluster keyed r
FusedWith(r) ==
    LET i == stabilizer_index
        ci == DictGet(Extended, i)
        cr == DictGet(Extended, r)
    IN  /\ HasKey(even_clusters', r)
        /\ DictGet(even_clusters', r).data = Or(ci.data, cr.data)
        /\ DictGet(even_clusters', r).syndrome =
               Or(Or(Or(ci.syndrome, cr.syndrome), Shl(1, i)), Shl(1, r))
        /\ ~HasKey(odd_clusters', i)
        /\ ~HasKey(odd_clusters', r)
        /\ syndrome_string' = AndNot(syndrome_string,
                                     Or(Shl(1, i), Shl(1, r)))
        /\ Len(odd_clusters') = Len(Extended) - 2
        /\ \A j \in 1..Len(Extended) :
               Extended[j].root \notin {i, r} =>
                   /\ HasKey(odd_clusters', Extended[j].root)
                   /\ DictGet(odd_clusters', Extended[j].root) = Extended[j]
        /\ Len(even_clusters') = Len(even_clusters) + 1
        /\ \A j \in 1..Len(even_clusters) :
               /\ HasKey(even_clusters', even_clusters[j].root)
               /\ DictGet(even_clusters', even_clusters[j].root)
                      = even_clusters[j]

\* C22: when the odd cluster at stabilizer_index, just extended, intersects
\* another odd cluster on the active dimension, the step fuses it with one
\* such cluster keyed r: even_clusters[r] becomes (data_i OR data_r,
\* syn_i OR syn_r OR bit i OR bit r), i and r leave odd_clusters, bits i and
\* r are cleared in the working syndrome and every other cluster is
\* unchanged; r = 0 included.
C22_FusionStep ==
    [][(Active /\ pc' = "for" /\ Intersecting # {}) =>
           \E r \in Intersecting : FusedWith(r)]_vars

\* the roots of odd_clusters come in ascending order
AscendingRoots ==
    \A j, k \in 1..Len(odd_clusters) :
        j < k => odd_clusters[j].root < odd_clusters[k].root

\* the lowest root among the odd clusters the extended cluster intersects
LowestIntersecting ==
    CHOOSE r \in Intersecting : \A q \in Intersecting : r <= q

\* C23: odd_clusters is always in ascending root order, and when the cluster
\* just extended intersects several other odd clusters at once the step
\* fuses it with the one of lowest root index only; the other intersected
\* clusters stay in odd_clusters, unchanged.
C23_LowestRootFirst ==
    /\ [](InGrowthLoop => AscendingRoots)
    /\ [][(Active /\ pc' = "for" /\ Cardinality(Intersecting) >= 2) =>
              /\ FusedWith(LowestIntersecting)
              /\ \A r \in Intersecting \ {LowestIntersecting} :
                     /\ HasKey(odd_clusters', r)
                     /\ DictGet(odd_clusters', r) = DictGet(Extended, r)
                     /\ ~HasKey(even_clusters', r)]_vars

\* in the first sweep the cluster at the index just passed intersected two
\* odd clusters: it was fused into the lower root and the other is still odd
C23_Witness ==
    /\ pc = "for"
    /\ count = 0
    /\ stabilizer_index >= 1
    /\ even_clusters # <<>>
    /\ LET i == stabilizer_index - 1
           e == even_clusters[Len(even_clusters)]
           stab == get_stabilizers(code, i, syndrome_type)
       IN  /\ e.root < i
           /\ e.syndrome = Or(Shl(1, i), Shl(1, e.root))
           /\ And(get_stabilizers(code, e.root, syndrome_type), stab) # 0
           /\ \E j \in 1..Len(odd_clusters) :
                  /\ odd_clusters[j].root > e.root
                  /\ And(odd_clusters[j].data, stab) # 0

(***************************************************************************)
(* The full growth step.                                                   *)
(***************************************************************************)
\* the stabilizers of a type whose support intersects a data mask
AdjacentChecks(data, type) ==
    MaskOf({ k \in 0..(Len(ParityChecks(code, type)) - 1) :
               And(ParityChecks(code, type)[k + 1], data) # 0 })

\* the syndrome_support a full step at stabilizer_index has to produce
FullStepSupport ==
    LET old == DictGet(odd_clusters, stabilizer_index)
    IN  Or(old.syndrome, AdjacentChecks(old.data, syndrome_type))

\* C24: on a syndrome of even popcount and of either type t, a full growth
\* step adds to the cluster's syndrome_support exactly the type-t
\* stabilizers whose support intersects its data_support (also when the
\* step goes on to fuse the cluster).
C24_FullStepType ==
    [][(Active /\ EvenInput /\ full_step = 1 /\ pc' = "for") =>
           IF HasKey(odd_clusters', stabilizer_index)
           THEN DictGet(odd_clusters', stabilizer_index).syndrome
                    = FullStepSupport
           ELSE LET e == even_clusters'[Len(even_clusters')]
                IN  e.syndrome =
                        Or(Or(Or(FullStepSupport,
                                 DictGet(odd_clusters, e.root).syndrome),
                              Shl(1, stabilizer_index)), Shl(1, e.root))]_vars

(***************************************************************************)
(* The round count.                                                        *)
(***************************************************************************)
\* C25: count goes up by one exactly when a sweep over all stabilizer
\* indices is completed (never inside a sweep, and every completed sweep
\* leaves syn = 0 and is counted); the sweep in progress is a half step when
\* count is even and a full step when count is odd, so sweeps alternate
\* starting with a half step; and a call on a non-empty syndrome returns a
\* count of at least 1.
C25_RoundCount ==
    /\ [](/\ (pc = "for" /\ count < MaxCount) => full_step = count % 2
          /\ (/\ pc = "for"
              /\ stabilizer_index = Len(ParityChecks(code, syndrome_type)))
                 => syn = 0
          /\ (pc = "validated" /\ error_syn # 0) => count >= 1)
    /\ [][/\ (pc = "for" /\ pc' = "while" /\ count < MaxCount)
                 => count' = count + 1
          /\ (pc = "for" /\ pc' = "for") => count' = count
          /\ (pc = "while" /\ pc' \in {"for", "validated"})
                 => count' = count]_vars

\* a call on a non-empty syndrome has returned after a half sweep and a
\* full sweep
C25_Witness ==
    /\ pc = "validated"
    /\ error_syn # 0
    /\ count = 2
    /\ full_step = 1

(***************************************************************************)
(* The error sampled by the threshold driver.                              *)
(***************************************************************************)
\* C26: in every trial of the threshold driver the sampled error mask has
\* set bits only at data-qubit indices 0 <= d < N_data of the code being
\* decoded.
C26_ErrorInRange ==
    (pc = "sampled") => error_string < Shl(1, code.num_data_qubits)

ChecksHolding(q, type) ==
    { i \in 1..Len(ParityChecks(code, type)) :
        Bit(ParityChecks(code, type)[i], q) }

\* C28: on a toric code with width and length at least 2 every data qubit
\* lies in exactly two Z stabilizers and in exactly two X stabilizers, and
\* generate_syndrome (parity mode) of a data mask has even popcount for
\* every error type.
C28_TwoChecksPerQubit ==
    (code.kind = "toric" /\ code.width >= 2 /\ code.length >= 2) =>
        /\ \A type \in {"x", "z"} :
             \A q \in 0..(code.num_data_qubits - 1) :
                 Cardinality(ChecksHolding(q, type)) = 2
        /\ (pc = "syndrome" /\ ~show_all_adjacent) =>
               CountOnes(error_syn) % 2 = 0

\* a parity-mode syndrome of three flipped data qubits with lit checks
C28_Witness ==
    /\ code.kind = "toric"
    /\ code.width >= 2
    /\ code.length >= 2
    /\ pc = "syndrome"
    /\ ~show_all_adjacent
    /\ CountOnes(error_string) = 3
    /\ CountOnes(error_syn) >= 4

(***************************************************************************)
(* Commutation of the stabilizers.                                         *)
(***************************************************************************)
\* a code the constructors are meant to build: a toric code with width and
\* length at least 2, or a rotated planar code of odd dimension at least 3
WellFormedCode ==
    \/ code.kind = "toric" /\ code.width >= 2 /\ code.length >= 2
    \/ code.kind = "rplanar" /\ code.width >= 3 /\ code.width % 2 = 1

\* C29: in every such code every X-stabilizer mask and every Z-stabilizer
\* mask overlap on an even number of data qubits.
C29_StabilizersCommute ==
    WellFormedCode =>
        \A i \in 1..Len(ParityChecks(code, "x")) :
            \A j \in 1..Len(ParityChecks(code, "z")) :
                CountOnes(And(ParityChecks(code, "x")[i],
                              ParityChecks(code, "z")[j])) % 2 = 0

\* a rotated planar code of odd dimension has been built in which a
\* weight-2 check shares two data qubits with a check of the other type
C29_Witness ==
    /\ code.kind = "rplanar"
    /\ code.width >= 3
    /\ code.width % 2 = 1
    /\ \E i \in 1..Len(ParityChecks(code, "x")) :
           \E j \in 1..Len(ParityChecks(code, "z")) :
               /\ CountOnes(ParityChecks(code, "x")[i]) = 2
               /\ CountOnes(And(ParityChecks(code, "x")[i],
                                ParityChecks(code, "z")[j])) = 2

(***************************************************************************)
(* graphs/graph.py and graphs/basic_search/bfs.py: a Graph built by        *)
(* add_edge calls, then searched breadth first.                            *)
(***************************************************************************)
InitGraph ==
    /\ code = NoCode
    /\ pc = "graph"
    /\ Fresh

\* the number of edges added so far
RECURSIVE EdgeCount(_, _)
EdgeCount(map, v) ==
    IF v > MaxVertex THEN 0 ELSE Len(map[v]) + EdgeCount(map, v + 1)

\* Graph.add_edge(i_vertex, f_vertex), lines 23-26
AddEdge ==
    /\ pc = "graph"
    /\ EdgeCount(vertex_map, 0) < MaxEdges
    /\ \E i_vertex \in 0..MaxVertex, f_vertex \in 0..MaxVertex :
         LET n == IF i_vertex >= f_vertex THEN i_vertex ELSE f_vertex
         IN  /\ vertex_map' =
                    [vertex_map EXCEPT ![i_vertex] = Append(@, f_vertex)]
             /\ num_vertices' = IF n > num_vertices THEN n + 1
                                ELSE num_vertices
             /\ args' = << i_vertex, f_vertex >>
    /\ UNCHANGED << code, pc, inputVars, decoderVars, outputVars, driverVars,
                    returned >>

\* bfs.py lines 32-35: for neighbour_vertex in ...: if not visited: append
\* and mark; visited is a list of num + 1 booleans, an index beyond it is
\* an IndexError
RECURSIVE NeighbourLoop(_, _, _, _)
NeighbourLoop(neighbours, k, queue, visited) ==
    IF k > Len(neighbours)
    THEN [ queue |-> queue, visited |-> visited, error |-> FALSE ]
    ELSE IF neighbours[k] \notin DOMAIN visited
    THEN [ queue |-> queue, visited |-> visited, error |-> TRUE ]
    ELSE IF ~visited[neighbours[k]]
    THEN NeighbourLoop(neighbours, k + 1, Append(queue, neighbours[k]),
                       [visited EXCEPT ![neighbours[k]] = TRUE])
    ELSE NeighbourLoop(neighbours, k + 1, queue, visited)

\* bfs.py lines 26-37: while queue: pop the first vertex, add it to the path
RECURSIVE QueueLoop(_, _, _, _)
QueueLoop(map, queue, visited, final_path) ==
    IF queue = <<>> THEN [ path |-> final_path, error |-> FALSE ]
    ELSE LET vertex == Head(queue)
             scan == NeighbourLoop(map[vertex], 1, Tail(queue), visited)
         IN  IF scan.error
             THEN [ path |-> final_path, error |-> TRUE ]
             ELSE QueueLoop(map, scan.queue, scan.visited,
                            Append(final_path, vertex))

\* breadth_first_search(graph, starting_vertex), lines 6-37
CallBreadthFirstSearch ==
    /\ pc = "graph"
    /\ \E starting_vertex \in 0..MaxVertex :
         LET visited == [ v \in 0..num_vertices |->
                            v = starting_vertex ]
             search == QueueLoop(vertex_map, << starting_vertex >>, visited,
                                 <<>>)
         IN  /\ args' = << starting_vertex >>
             /\ IF starting_vertex > num_vertices - 1
                THEN pc' = "ValueError" /\ UNCHANGED returned
                ELSE IF search.error
                THEN pc' = "IndexError" /\ UNCHANGED returned
                ELSE pc' = "path" /\ returned' = search.path
    /\ UNCHANGED << code, inputVars, decoderVars, outputVars, driverVars,
                    graphVars >>

NextGraph == AddEdge \/ CallBreadthFirstSearch

SpecGraph == InitGraph /\ [][NextGraph]_vars

\* the vertex indexes passed to add_edge so far
AddedVertices ==
    { v \in 0..MaxVertex :
        \/ vertex_map[v] # <<>>
        \/ \E u \in 0..MaxVertex :
               \E k \in 1..Len(vertex_map[u]) : vertex_map[u][k] = v }

\* C30: after any sequence of add_edge calls get_num_vertices() is strictly
\* greater than every vertex index passed to add_edge, and
\* breadth_first_search rejects no vertex that was added.
C30_NumVerticesCoversGraph ==
    /\ \A v \in AddedVertices : num_vertices > v
    /\ pc = "ValueError" => args[1] \notin AddedVertices

====
